---- MODULE Spec2Model ----
(***************************************************************************)
(* Policy managers of maro/rl/policy/policy_manager.py:                    *)
(*   AbsPolicyManager (history, version, get_state),                       *)
(*   LocalPolicyManager, MultiProcessPolicyManager, MultiNodePolicyManager *)
(* together with the trainer units they talk to.                           *)
(*                                                                         *)
(* An experience batch is modelled by its size, a policy state by the      *)
(* number of learn() calls that produced it, a trainer "TRAINER.i" by i.   *)
(***************************************************************************)
EXTENDS Integers, Sequences, FiniteSets, TLC

\* ------------------------------------------------------------------ bounds
\* Largest num_trainers a manager is constructed with.
MaxTrainers == 2
\* Largest update trigger and largest warmup size of a policy.
MaxTrigger == 2
MaxWarmup == 2
\* Largest number of update() calls made on a manager.
MaxCalls == 3

\* The number of get_state() calls in a run.
MaxReads == 1

\* config.yml: sync.num_rollout_workers and async.num_actors are at most these.
MaxRolloutWorkers == 2
MaxActors == 2

\* The policy names a manager is constructed with: a non-empty prefix of
\* AllNames, in the iteration order of policy_dict.
AllNames == <<"A", "B">>

\* The policy names used where only the assignment of policies to trainers
\* is examined.
AssignNames == <<"A", "B", "C">>

\* The sizes of the experience batches passed to update().
BatchSizes == {0, 1}

Variants == {"local", "mp", "mn"}

VARIABLES
    variant,            \* which manager class was constructed
    names,              \* the keys of policy_dict, in insertion order
    num_trainers,       \* constructor argument num_trainers
    trigger_arg,        \* constructor argument update_trigger (<<>>: None)
    warmup_arg,         \* constructor argument warmup (<<>>: None)
    update_trigger,     \* self.update_trigger
    warmup,             \* self.warmup
    history,            \* self._update_history
    policy_state,       \* state of self.policy_dict[name], per name
    new_exp_counter,    \* LocalPolicyManager._new_exp_counter
    store_size,         \* policy.experience_store.size of the manager's policies
    exp_cache,          \* size of self._exp_cache[name]
    num_exp,            \* self._num_experiences_by_policy
    policy2trainer,     \* self._policy2trainer
    trainer2policies,   \* self._trainer2policies
    chan_to,            \* messages sent to each trainer and not yet handled
    chan_from,          \* replies of each trainer not yet received by the manager
    trainer_state,      \* state of the trainer-side copy of each policy
    trainer_alive,      \* whether the trainer unit still runs
    pc,                 \* "idle"; "send", "recv" while update() sends, waits for
                        \* replies; "exit" while exit() sends
    updated,            \* the local variable "updated" of the running update()
    n_recv,             \* replies received so far by the running update()
    exited,             \* exit() has been called and has returned
    ncalls,             \* number of update() calls made so far
    cur_exp,            \* argument of the most recent update() call
    outcome,            \* how the most recent update() call ended
    is_core,            \* per policy: the object is an AbsCorePolicy instance
    send_raises,        \* self._endpoint.send() raises (the endpoint was closed)
    exp_to_send,        \* update()'s local exp_to_send while it sends (<<>> otherwise)
    n_sent,             \* how many sends of the round have returned
    reads,              \* number of get_state() calls made so far
    read_result,        \* what the most recent get_state() call returned
    twin,               \* a LocalPolicyManager fed the same update() calls
    ma,                 \* a MultiAgentPolicy: states in memory and on disk
    wf,                 \* the workflow scripts: environment, config, results
    post_update,        \* self._post_update is set (constructor argument)
    trackers,           \* the local list "trackers" of the running update()
    post_calls          \* the calls of self._post_update made so far

vars == <<variant, names, num_trainers, trigger_arg, warmup_arg, update_trigger,
          warmup, history, policy_state, new_exp_counter, store_size, exp_cache,
          num_exp, policy2trainer, trainer2policies, chan_to, chan_from,
          trainer_state, trainer_alive, pc, updated, n_recv, exited, ncalls,
          cur_exp, outcome, is_core, send_raises, exp_to_send, n_sent,
          reads, read_result, twin, ma, wf,
          post_update, trackers, post_calls>>

\* What the constructor fixes.
settings == <<variant, names, num_trainers, trigger_arg, warmup_arg, update_trigger,
              warmup, is_core>>

\* What only exit() changes after construction.
config == <<settings, send_raises>>

\* What update() leaves alone: the record of the get_state() calls, the twin
\* manager, the MultiAgentPolicy, the workflow scripts and the callback
\* argument of the constructor.
observers == <<reads, read_result, twin, ma, wf, post_update>>

\* The post-update callback: whether it is set, the trackers of the running
\* round and the calls made.
callback == <<post_update, trackers, post_calls>>

\* What the other operations of a policy manager leave alone.
others == <<reads, read_result, twin, ma, wf, callback>>

\* The variables of a policy manager and of its trainers.
\* The locals of the send loop of update().
sending == <<exp_to_send, n_sent>>

manager == <<history, policy_state, new_exp_counter, store_size, exp_cache,
             num_exp, policy2trainer, trainer2policies, chan_to, chan_from,
             trainer_state, trainer_alive, pc, updated, n_recv, exited, ncalls,
             cur_exp, outcome, sending>>

\* ------------------------------------------------------------------ helpers
Range(s) == {s[i] : i \in DOMAIN s}

Policies == Range(names)

Trainers == 0 .. (num_trainers - 1)

\* ------------------------------------------------- AbsPolicyManager.__init__
\* Mutant: the default threshold is 2.
ResolveThresholdTwo(arg, ns) ==
    IF arg = <<>> THEN [n \in Range(ns) |-> 2] ELSE arg

\* update_trigger / warmup default to 1 for every policy when the argument is
\* None (or empty).
ResolveThreshold(arg, ns) ==
    IF arg = <<>> THEN [n \in Range(ns) |-> 1] ELSE arg

\* Mutant: the history starts with an empty entry.
InitialHistoryEmpty(ns) == <<{}>>

\* self._update_history = [set(policy_dict.keys())]
InitialHistory(ns) == <<Range(ns)>>

\* version property
version == Len(history) - 1

\* ------------------------------------------------- AbsPolicyManager.get_state
\* self._update_history[v] with Python's indexing: a negative v counts from
\* the end.
HistAt(v) == IF v >= 0 THEN history[v + 1] ELSE history[Len(history) + v + 1]

\* Mutant: the range starts at cur_version itself.
VersionRangeFromCur(cur_version) == cur_version .. (Len(history) - 1)

\* range(cur_version + 1, len(self._update_history))
VersionRange(cur_version) == (cur_version + 1) .. (Len(history) - 1)

\* get_state(cur_version) for an integer cur_version: ok = FALSE when the
\* history lookup raises IndexError.
get_state(cur_version) ==
    IF \E v \in VersionRange(cur_version) : v < -Len(history)
    THEN [ok |-> FALSE, state |-> <<>>]
    ELSE LET upd == UNION {HistAt(v) : v \in VersionRange(cur_version)}
         IN  [ok |-> TRUE, state |-> [name \in upd |-> policy_state[name]]]

\* get_state() with no argument: cur_version = self.version - 1
get_state_default == get_state(version - 1)

\* --------------------------------------------------- assignment of policies
\* MultiProcessPolicyManager: trainer_id = i % num_trainers (i from 0).
MPTrainerOf(i, k) == i % k

\* Mutant: the index is not wrapped around.
MNNextIdxNoWrap(trainer_idx, k) == trainer_idx + 1

\* MultiNodePolicyManager: trainer_idx = (trainer_idx + 1) % num_trainers.
MNNextIdx(trainer_idx, k) == (trainer_idx + 1) % k

\* Mutant: the name is also appended to the list of the first trainer.
AppendToFirstToo(t2p, t, name) ==
    IF t \in DOMAIN t2p
    THEN [x \in DOMAIN t2p |->
             IF x = t \/ x = 0 THEN Append(t2p[x], name) ELSE t2p[x]]
    ELSE [x \in DOMAIN t2p \cup {t} |->
             IF x = t THEN <<name>>
             ELSE IF x = 0 THEN Append(t2p[x], name) ELSE t2p[x]]

\* self._trainer2policies[trainer_id].append(name) on a defaultdict(list).
AppendTo(t2p, t, name) ==
    IF t \in DOMAIN t2p
    THEN [t2p EXCEPT ![t] = Append(@, name)]
    ELSE [x \in DOMAIN t2p \cup {t} |-> IF x = t THEN <<name>> ELSE t2p[x]]

RECURSIVE MPAssignFrom(_, _, _, _)
MPAssignFrom(i, ns, k, acc) ==
    IF i > Len(ns) THEN acc
    ELSE LET t == MPTrainerOf(i - 1, k)
         IN  MPAssignFrom(i + 1, ns, k,
                 [p2t |-> [x \in DOMAIN acc.p2t \cup {ns[i]} |->
                              IF x = ns[i] THEN t ELSE acc.p2t[x]],
                  t2p |-> AppendTo(acc.t2p, t, ns[i])])

MPAssign(ns, k) == MPAssignFrom(1, ns, k, [p2t |-> <<>>, t2p |-> <<>>])

RECURSIVE MNAssignFrom(_, _, _, _, _)
MNAssignFrom(i, trainer_idx, ns, k, acc) ==
    IF i > Len(ns) THEN acc
    ELSE MNAssignFrom(i + 1, MNNextIdx(trainer_idx, k), ns, k,
             [p2t |-> [x \in DOMAIN acc.p2t \cup {ns[i]} |->
                          IF x = ns[i] THEN trainer_idx ELSE acc.p2t[x]],
              t2p |-> AppendTo(acc.t2p, trainer_idx, ns[i])])

MNAssign(ns, k) == MNAssignFrom(1, 0, ns, k, [p2t |-> <<>>, t2p |-> <<>>])

Assignment(v, ns, k) ==
    IF v = "mp" THEN MPAssign(ns, k)
    ELSE IF v = "mn" THEN MNAssign(ns, k)
    ELSE [p2t |-> <<>>, t2p |-> <<>>]

\* ------------------------------------------------------------------ Init
\* The trainer units running once the constructor returned: the multi-process
\* manager starts one process per key of _trainer2policies; the trainer nodes
\* of the multi-node manager are the num_trainers workers of the endpoint.
StartedAtInit(v, ns, k, t) ==
    \/ v = "mn"
    \/ v = "mp" /\ t \in DOMAIN Assignment(v, ns, k).t2p

\* The state after the constructor of manager class v returned, for policies
\* ns, k trainers and the update_trigger / warmup arguments ta / wa.
Construct(v, ns, k, ta, wa) ==
    /\ variant = v
    /\ names = ns
    /\ num_trainers = k
    /\ trigger_arg = ta
    /\ warmup_arg = wa
    /\ update_trigger = ResolveThreshold(ta, ns)
    /\ warmup = ResolveThreshold(wa, ns)
    /\ history = InitialHistory(ns)
    /\ policy_state = [p \in Range(ns) |-> 0]
    /\ new_exp_counter = [p \in Range(ns) |-> 0]
    /\ store_size = [p \in Range(ns) |-> 0]
    /\ exp_cache = [p \in Range(ns) |-> 0]
    /\ num_exp = [p \in Range(ns) |-> 0]
    /\ policy2trainer = Assignment(v, ns, k).p2t
    /\ trainer2policies = Assignment(v, ns, k).t2p
    /\ chan_to = [t \in 0 .. (k - 1) |-> <<>>]
    /\ chan_from = [t \in 0 .. (k - 1) |-> <<>>]
    /\ trainer_state = [p \in Range(ns) |-> 0]
    /\ trainer_alive = [t \in 0 .. (k - 1) |-> StartedAtInit(v, ns, k, t)]
    /\ pc = "idle"
    /\ updated = {}
    /\ n_recv = 0
    /\ exited = FALSE
    /\ ncalls = 0
    /\ cur_exp = <<>>
    /\ outcome = "none"
    /\ is_core = [p \in Range(ns) |-> TRUE]
    /\ send_raises = FALSE
    /\ exp_to_send = <<>>
    /\ n_sent = 0
    /\ reads = 0
    /\ read_result = [ok |-> FALSE, state |-> <<>>]
    /\ twin = [counter |-> [p \in Range(ns) |-> 0],
               store |-> [p \in Range(ns) |-> 0],
               history |-> InitialHistory(ns),
               updated |-> {}]

\* Mutant: the check comes after the history was created and the trainer
\* processes were started.
ConstructRaisesLate(v, ns, k, ta, wa, core) ==
    /\ variant = v
    /\ names = ns
    /\ num_trainers = k
    /\ trigger_arg = ta
    /\ warmup_arg = wa
    /\ is_core = core
    /\ send_raises = FALSE
    /\ exp_to_send = <<>>
    /\ n_sent = 0
    /\ pc = "ValueError"
    /\ update_trigger = <<>>
    /\ warmup = <<>>
    /\ history = InitialHistory(ns)
    /\ policy_state = <<>>
    /\ new_exp_counter = <<>>
    /\ store_size = <<>>
    /\ exp_cache = <<>>
    /\ num_exp = <<>>
    /\ policy2trainer = <<>>
    /\ trainer2policies = <<>>
    /\ chan_to = [t \in 0 .. (k - 1) |-> <<>>]
    /\ chan_from = [t \in 0 .. (k - 1) |-> <<>>]
    /\ trainer_state = [p \in Range(ns) |-> 0]
    /\ trainer_alive = [t \in 0 .. (k - 1) |-> v # "local"]
    /\ updated = {}
    /\ n_recv = 0
    /\ exited = FALSE
    /\ ncalls = 0
    /\ cur_exp = <<>>
    /\ outcome = "none"
    /\ reads = 0
    /\ read_result = [ok |-> FALSE, state |-> <<>>]
    /\ twin = <<>>

\* The state after the constructor raised ValueError on a policy that is not
\* an AbsCorePolicy instance (core says which are): the check is the first
\* statement of AbsPolicyManager.__init__, which every subclass constructor
\* calls before anything else. The trainer nodes of a multi-node manager are
\* started independently of it.
ConstructRaises(v, ns, k, ta, wa, core) ==
    /\ variant = v
    /\ names = ns
    /\ num_trainers = k
    /\ trigger_arg = ta
    /\ warmup_arg = wa
    /\ is_core = core
    /\ send_raises = FALSE
    /\ exp_to_send = <<>>
    /\ n_sent = 0
    /\ pc = "ValueError"
    /\ update_trigger = <<>>
    /\ warmup = <<>>
    /\ history = <<>>
    /\ policy_state = <<>>
    /\ new_exp_counter = <<>>
    /\ store_size = <<>>
    /\ exp_cache = <<>>
    /\ num_exp = <<>>
    /\ policy2trainer = <<>>
    /\ trainer2policies = <<>>
    /\ chan_to = [t \in 0 .. (k - 1) |-> <<>>]
    /\ chan_from = [t \in 0 .. (k - 1) |-> <<>>]
    /\ trainer_state = [p \in Range(ns) |-> 0]
    /\ trainer_alive = [t \in 0 .. (k - 1) |-> v = "mn"]
    /\ updated = {}
    /\ n_recv = 0
    /\ exited = FALSE
    /\ ncalls = 0
    /\ cur_exp = <<>>
    /\ outcome = "none"
    /\ reads = 0
    /\ read_result = [ok |-> FALSE, state |-> <<>>]
    /\ twin = <<>>

\* No MultiAgentPolicy next to the manager.
NoMultiAgentPolicy ==
    [mem |-> <<>>, files |-> <<>>, op |-> "none", raised |-> FALSE, arg |-> <<>>,
     core |-> <<>>, store |-> <<>>, exps |-> <<>>, ret |-> <<>>, ncalls |-> 0]

\* The workflow scripts are not run.
NoWorkflow == [env |-> <<>>, config |-> <<>>, op |-> "none"]

\* post_update = None: no callback, and no call of it yet.
NoCallback == post_update = FALSE /\ trackers = <<>> /\ post_calls = <<>>

\* The update_trigger (warmup) arguments: None, or a threshold per policy.
ThresholdArgs(ns, max) == {<<>>} \cup [Range(ns) -> 1 .. max]

\* num_trainers is an argument of the multi-process and multi-node managers
\* only; the local manager is modelled with one (unused) trainer slot.
TrainerCounts(v) == IF v = "local" THEN {1} ELSE 1 .. MaxTrainers

\* Which of the objects of policy_dict are AbsCorePolicy instances.
PolicyKinds(ns) == [Range(ns) -> BOOLEAN]

Init ==
    /\ ma = NoMultiAgentPolicy
    /\ wf = NoWorkflow
    /\ NoCallback
    /\ \E v \in Variants, n \in 1 .. Len(AllNames) :
        \E k \in TrainerCounts(v),
           ta \in ThresholdArgs(SubSeq(AllNames, 1, n), MaxTrigger),
           wa \in ThresholdArgs(SubSeq(AllNames, 1, n), MaxWarmup),
           core \in PolicyKinds(SubSeq(AllNames, 1, n)) :
            IF \A p \in DOMAIN core : core[p]
            THEN Construct(v, SubSeq(AllNames, 1, n), k, ta, wa)
            ELSE ConstructRaises(v, SubSeq(AllNames, 1, n), k, ta, wa, core)

\* Multi-process and multi-node managers constructed with the default
\* thresholds, over the longer list of policy names.
InitAssign ==
    /\ ma = NoMultiAgentPolicy
    /\ wf = NoWorkflow
    /\ NoCallback
    /\ \E v \in {"mp", "mn"}, n \in 1 .. Len(AssignNames), k \in 1 .. MaxTrainers :
        Construct(v, SubSeq(AssignNames, 1, n), k, <<>>, <<>>)

\* The arguments update() is called with: a batch (its size) for each policy
\* of some subset of the policies.
Batches == UNION {[S -> BatchSizes] : S \in SUBSET Policies}

\* ------------------------------------------------------ experience store
\* policy.experience_store.put(exp): the store grows by the batch.
StorePut(size, batch) == size + batch

\* ------------------------------------------------ LocalPolicyManager.update
\* Mutant: the trigger must be exceeded, not merely reached.
LocalDueStrict(p, exp) ==
    /\ p \in DOMAIN exp
    /\ new_exp_counter[p] + exp[p] > update_trigger[p]
    /\ StorePut(store_size[p], exp[p]) >= warmup[p]

\* The condition under which update() calls policy.learn() for a policy of
\* the mapping, evaluated after the batch was stored and counted, for a
\* manager whose _new_exp_counter is counter and whose stores hold store.
LocalDueOn(counter, store, p, exp) ==
    /\ p \in DOMAIN exp
    /\ counter[p] + exp[p] >= update_trigger[p]
    /\ StorePut(store[p], exp[p]) >= warmup[p]

\* Mutant: the warmup must be exceeded, not merely reached.
LocalDueWarmupStrict(p, exp) ==
    /\ p \in DOMAIN exp
    /\ new_exp_counter[p] + exp[p] >= update_trigger[p]
    /\ StorePut(store_size[p], exp[p]) > warmup[p]

LocalDue(p, exp) == LocalDueOn(new_exp_counter, store_size, p, exp)

\* The set "updated" at the end of the loop.
LocalUpdated(exp) == {p \in DOMAIN exp : LocalDue(p, exp)}

\* if updated: self._update_history.append(updated)
AppendHistory(h, upd) == IF upd # {} THEN Append(h, upd) ELSE h

\* if self._post_update: self._post_update(trackers)
\* at the end of update(), when the history is h. A call is recorded with its
\* argument and the version the manager has when it is made.
PostUpdate(calls, trks, h) ==
    IF post_update
    THEN Append(calls, [trackers |-> trks, version |-> Len(h) - 1])
    ELSE calls

\* The callback is the caller's code: it returns, or it raises, and then
\* update() ends with its exception, the history entry already appended.
\* Without a callback update() returns.
PostUpdateOutcomes == IF post_update THEN {"ok", "CallbackError"} ELSE {"ok"}

\* [policy.tracker for policy in self.policy_dict.values()]: the tracker of
\* each policy, named by the policy.
LocalTrackers == names

LocalUpdate(exp) ==
    /\ variant = "local"
    /\ pc = "idle"
    /\ ncalls < MaxCalls
    /\ LET upd == LocalUpdated(exp) IN
        /\ store_size' = [p \in Policies |->
               IF p \in DOMAIN exp THEN StorePut(store_size[p], exp[p])
               ELSE store_size[p]]
        /\ new_exp_counter' = [p \in Policies |->
               IF p \in upd THEN 0
               ELSE IF p \in DOMAIN exp THEN new_exp_counter[p] + exp[p]
               ELSE new_exp_counter[p]]
        /\ policy_state' = [p \in Policies |->
               IF p \in upd THEN policy_state[p] + 1 ELSE policy_state[p]]
        /\ updated' = upd
        /\ history' = AppendHistory(history, upd)
    /\ post_calls' = PostUpdate(post_calls, LocalTrackers, history')
    /\ ncalls' = ncalls + 1
    /\ cur_exp' = exp
    /\ outcome' \in PostUpdateOutcomes
    /\ UNCHANGED <<config, sending, observers, trackers, exp_cache, num_exp, policy2trainer,
                   trainer2policies,
                   chan_to, chan_from, trainer_state, trainer_alive, pc, n_recv,
                   exited>>

\* Mutant: the policies that learned before the exception are recorded.
HistoryOnRaiseCommits(h, learned) == AppendHistory(h, learned)

\* An exception raised by policy.learn() leaves the loop and update(): the
\* append after the loop is not reached.
HistoryOnRaise(h, learned) == h

\* update() in which policy.learn() of policy f raises: the policies of
\* "before" were processed by the loop, f was stored and counted and was due,
\* the rest of the mapping was not reached.
LocalUpdateRaise(exp, f, before) ==
    /\ variant = "local"
    /\ pc = "idle"
    /\ ncalls < MaxCalls
    /\ f \in DOMAIN exp
    /\ before \subseteq DOMAIN exp \ {f}
    /\ LocalDue(f, exp)
    /\ LET learned == {p \in before : LocalDue(p, exp)} IN
        /\ store_size' = [p \in Policies |->
               IF p \in before \cup {f} THEN StorePut(store_size[p], exp[p])
               ELSE store_size[p]]
        /\ new_exp_counter' = [p \in Policies |->
               IF p \in learned THEN 0
               ELSE IF p \in before \cup {f} THEN new_exp_counter[p] + exp[p]
               ELSE new_exp_counter[p]]
        /\ policy_state' = [p \in Policies |->
               IF p \in learned THEN policy_state[p] + 1 ELSE policy_state[p]]
        /\ updated' = learned
        /\ history' = HistoryOnRaise(history, learned)
    /\ ncalls' = ncalls + 1
    /\ cur_exp' = exp
    /\ outcome' = "LearnError"
    /\ UNCHANGED <<config, sending, others, exp_cache, num_exp, policy2trainer, trainer2policies,
                   chan_to, chan_from, trainer_state, trainer_alive, pc, n_recv,
                   exited>>

\* --------------------------- MultiProcess / MultiNode update(): accumulation
\* The condition under which a policy's cached batch is popped into
\* exp_to_send, evaluated after the batch was counted and cached.
DistDue(p, exp) ==
    /\ p \in DOMAIN exp
    /\ exp_cache[p] + exp[p] >= update_trigger[p]
    /\ num_exp[p] + exp[p] >= warmup[p]

\* The set "updated" (the keys of exp_to_send) at the end of the first loop.
DistUpdated(exp) == {p \in DOMAIN exp : DistDue(p, exp)}

\* exp_to_send: the popped batch of every due policy.
ExpToSend(exp) == [p \in DistUpdated(exp) |-> exp_cache[p] + exp[p]]

NumExpAfter(exp) ==
    [p \in Policies |-> IF p \in DOMAIN exp THEN num_exp[p] + exp[p] ELSE num_exp[p]]

\* Mutant: popping one policy's batch clears the whole cache.
ExpCacheAfterClearAll(exp) ==
    [p \in Policies |->
        IF DistUpdated(exp) # {} THEN 0
        ELSE IF p \in DOMAIN exp THEN exp_cache[p] + exp[p]
        ELSE exp_cache[p]]

ExpCacheAfter(exp) ==
    [p \in Policies |->
        IF p \in DistUpdated(exp) THEN 0
        ELSE IF p \in DOMAIN exp THEN exp_cache[p] + exp[p]
        ELSE exp_cache[p]]

\* --------------------------------- MultiProcess / MultiNode update(): sends
\* The trainers the manager holds a connection to: the keys of
\* _trainer2policies (and of _manager_end), in insertion order 0, 1, ...
TrainerKeys == DOMAIN trainer2policies

\* {name: exp_to_send[name] for name in self._trainer2policies[trainer_id]}
\* can be built only if every policy of the trainer is in exp_to_send;
\* otherwise the lookup raises KeyError.
CanBuild(t, ets) == \A p \in Range(trainer2policies[t]) : p \in DOMAIN ets

\* conn.send() on a pipe whose trainer process has terminated raises
\* BrokenPipeError; self._endpoint.send() raises or not as close() left the
\* endpoint (update() itself checks nothing).
SendFails(t) ==
    \/ variant = "mp" /\ ~trainer_alive[t]
    \/ variant = "mn" /\ send_raises

\* The n-th connection (from 0) of self._manager_end (of _trainer2policies).
NthConn(n) == CHOOSE t \in TrainerKeys : Cardinality({u \in TrainerKeys : u < t}) = n

TrainMsg(t, ets) ==
    [type |-> "train", experiences |-> [p \in Range(trainer2policies[t]) |-> ets[p]]]

\* update() up to its first suspension point: the batches are counted and
\* cached, the due ones popped into exp_to_send, and the first message is
\* built (which can raise KeyError); then the call waits in its first send.
DistUpdateBegin(exp) ==
    /\ pc = "idle"
    /\ ncalls < MaxCalls
    /\ num_exp' = NumExpAfter(exp)
    /\ exp_cache' = ExpCacheAfter(exp)
    /\ updated' = DistUpdated(exp)
    /\ IF CanBuild(NthConn(0), ExpToSend(exp))
       THEN pc' = "send" /\ outcome' = "running" /\ exp_to_send' = ExpToSend(exp)
       ELSE pc' = "idle" /\ outcome' = "KeyError" /\ exp_to_send' = <<>>
    /\ n_sent' = 0
    /\ n_recv' = 0
    /\ trackers' = <<>>
    /\ ncalls' = ncalls + 1
    /\ cur_exp' = exp
    /\ UNCHANGED <<config, post_calls, history, policy_state, new_exp_counter, store_size,
                   policy2trainer, trainer2policies, chan_to, chan_from, trainer_state,
                   trainer_alive, exited>>

\* The send update() waits in returns or raises; after it the next message is
\* built (KeyError) and the call waits in the next send, or in its first
\* receive when every trainer was sent its message.
DistSend ==
    /\ pc = "send"
    /\ LET t == NthConn(n_sent) IN
        IF SendFails(t)
        THEN /\ pc' = "idle" /\ outcome' = "SendError"
             /\ exp_to_send' = <<>> /\ n_sent' = 0
             /\ UNCHANGED chan_to
        ELSE /\ chan_to' = [chan_to EXCEPT ![t] = Append(@, TrainMsg(t, exp_to_send))]
             /\ IF n_sent + 1 = Cardinality(TrainerKeys)
                THEN /\ pc' = "recv" /\ exp_to_send' = <<>> /\ n_sent' = 0
                     /\ UNCHANGED outcome
                ELSE IF CanBuild(NthConn(n_sent + 1), exp_to_send)
                THEN /\ n_sent' = n_sent + 1
                     /\ UNCHANGED <<pc, outcome, exp_to_send>>
                ELSE /\ pc' = "idle" /\ outcome' = "KeyError"
                     /\ exp_to_send' = <<>> /\ n_sent' = 0
    /\ UNCHANGED <<config, observers, trackers, post_calls, history, policy_state,
                   new_exp_counter, store_size, exp_cache, num_exp, policy2trainer,
                   trainer2policies, chan_from, trainer_state, trainer_alive, updated,
                   n_recv, exited, ncalls, cur_exp>>

MPUpdate(exp) == variant = "mp" /\ DistUpdateBegin(exp) /\ UNCHANGED observers

MNUpdate(exp) == variant = "mn" /\ DistUpdateBegin(exp) /\ UNCHANGED observers

MPSend == variant = "mp" /\ DistSend

MNSend == variant = "mn" /\ DistSend

\* ------------------------------ MultiProcess / MultiNode update(): receives
\* self.policy_dict[policy_name].set_state(policy_state) for the reply's states
ApplyReply(result) ==
    [p \in Policies |->
        IF p \in DOMAIN result.policy THEN result.policy[p] ELSE policy_state[p]]

\* The tail of update() once all replies are in.
FinishUpdate ==
    /\ history' = AppendHistory(history, updated)
    /\ pc' = "idle"
    /\ outcome' \in PostUpdateOutcomes

\* trackers.append(result["tracker"])
TrackersWith(result) == Append(trackers, result.tracker)

\* MultiProcessPolicyManager: conn.recv() on the connections in order.
MPRecv ==
    /\ variant = "mp"
    /\ pc = "recv"
    /\ n_recv < Cardinality(TrainerKeys)
    /\ LET t == NthConn(n_recv) IN
        /\ chan_from[t] # <<>>
        /\ policy_state' = ApplyReply(Head(chan_from[t]))
        /\ chan_from' = [chan_from EXCEPT ![t] = Tail(@)]
    /\ n_recv' = n_recv + 1
    /\ IF n_recv + 1 = Cardinality(TrainerKeys)
       THEN /\ FinishUpdate
            /\ post_calls' = PostUpdate(post_calls,
                                        TrackersWith(Head(chan_from[NthConn(n_recv)])),
                                        history')
            /\ trackers' = <<>>
       ELSE /\ trackers' = TrackersWith(Head(chan_from[NthConn(n_recv)]))
            /\ UNCHANGED <<history, pc, outcome, post_calls>>
    /\ UNCHANGED <<config, sending, observers, new_exp_counter, store_size, exp_cache, num_exp,
                   policy2trainer, trainer2policies, chan_to, trainer_state,
                   trainer_alive, updated, exited, ncalls, cur_exp>>

\* MultiProcessPolicyManager: conn.recv() on an empty pipe whose trainer
\* process has terminated raises (EOFError or ConnectionResetError), which
\* ends update().
MPRecvFail ==
    /\ variant = "mp"
    /\ pc = "recv"
    /\ n_recv < Cardinality(TrainerKeys)
    /\ chan_from[NthConn(n_recv)] = <<>>
    /\ ~trainer_alive[NthConn(n_recv)]
    /\ pc' = "idle"
    /\ outcome' = "RecvError"
    /\ trackers' = <<>>
    /\ UNCHANGED <<config, sending, observers, post_calls, history, policy_state,
                   new_exp_counter, store_size,
                   exp_cache, num_exp, policy2trainer, trainer2policies, chan_to,
                   chan_from, trainer_state, trainer_alive, updated, n_recv, exited,
                   ncalls, cur_exp>>

\* MultiNodePolicyManager: self._endpoint.receive() takes the next reply of
\* any trainer, self._num_trainers times.
MNRecv(t) ==
    /\ variant = "mn"
    /\ pc = "recv"
    /\ n_recv < num_trainers
    /\ chan_from[t] # <<>>
    /\ policy_state' = ApplyReply(Head(chan_from[t]))
    /\ chan_from' = [chan_from EXCEPT ![t] = Tail(@)]
    /\ n_recv' = n_recv + 1
    /\ IF n_recv + 1 = num_trainers
       THEN /\ FinishUpdate
            /\ post_calls' = PostUpdate(post_calls, TrackersWith(Head(chan_from[t])),
                                        history')
            /\ trackers' = <<>>
       ELSE /\ trackers' = TrackersWith(Head(chan_from[t]))
            /\ UNCHANGED <<history, pc, outcome, post_calls>>
    /\ UNCHANGED <<config, sending, observers, new_exp_counter, store_size, exp_cache, num_exp,
                   policy2trainer, trainer2policies, chan_to, trainer_state,
                   trainer_alive, updated, exited, ncalls, cur_exp>>

\* ------------------------------------------------------------ trainer unit
\* TRAIN: every policy named in the message learns from its batch; the reply
\* carries the new state of exactly those policies.
TrainerTrain(t) ==
    /\ trainer_alive[t]
    /\ chan_to[t] # <<>>
    /\ Head(chan_to[t]).type = "train"
    /\ LET trained == DOMAIN Head(chan_to[t]).experiences
           after == [p \in Policies |->
                        IF p \in trained THEN trainer_state[p] + 1 ELSE trainer_state[p]]
       IN  /\ trainer_state' = after
           /\ chan_from' = [chan_from EXCEPT ![t] =
                  Append(@, [policy |-> [p \in trained |-> after[p]], tracker |-> t])]
    /\ chan_to' = [chan_to EXCEPT ![t] = Tail(@)]
    /\ UNCHANGED <<config, sending, others, history, policy_state, new_exp_counter, store_size,
                   exp_cache, num_exp, policy2trainer, trainer2policies,
                   trainer_alive, pc, updated, n_recv, exited, ncalls, cur_exp,
                   outcome>>

\* EXIT / quit: the unit terminates, without a reply.
TrainerQuit(t) ==
    /\ trainer_alive[t]
    /\ chan_to[t] # <<>>
    /\ Head(chan_to[t]).type = "quit"
    /\ trainer_alive' = [trainer_alive EXCEPT ![t] = FALSE]
    /\ chan_to' = [chan_to EXCEPT ![t] = Tail(@)]
    /\ UNCHANGED <<config, sending, others, history, policy_state, new_exp_counter, store_size,
                   exp_cache, num_exp, policy2trainer, trainer2policies, chan_from,
                   trainer_state, pc, updated, n_recv, exited, ncalls, cur_exp,
                   outcome>>

\* ------------------------------------------------------------------ exit()
QuitMsg == [type |-> "quit", experiences |-> <<>>]

\* self._endpoint.close(): what send() does on the endpoint afterwards is the
\* transport's business; it raises, or it accepts a message nobody handles.
CloseEndpoint == BOOLEAN

\* The send to the i-th trainer (from 0) in exit()'s loop returns: the quit
\* message is on its way; after the last one exit() returns (the multi-node
\* manager closes its endpoint first), else it waits in the next send.
ExitSend(i) ==
    /\ chan_to' = [chan_to EXCEPT ![NthConn(i)] = Append(@, QuitMsg)]
    /\ IF i + 1 = Cardinality(TrainerKeys)
       THEN /\ pc' = "idle" /\ n_sent' = 0 /\ exited' = TRUE
            /\ IF variant = "mn"
               THEN send_raises' \in CloseEndpoint
               ELSE UNCHANGED send_raises
       ELSE /\ pc' = "exit" /\ n_sent' = i + 1
            /\ UNCHANGED <<exited, send_raises>>
    /\ UNCHANGED <<settings, exp_to_send, others, history, policy_state, new_exp_counter,
                   store_size, exp_cache, num_exp, policy2trainer, trainer2policies,
                   chan_from, trainer_state, trainer_alive, updated, n_recv, ncalls,
                   cur_exp, outcome>>

\* MultiProcessPolicyManager.exit: a quit message on every connection; the
\* call and its first send.
MPExit == variant = "mp" /\ pc = "idle" /\ ~exited /\ ExitSend(0)

\* MultiNodePolicyManager.exit: an EXIT message to every trainer of
\* _trainer2policies, then the endpoint is closed; the call and its first
\* send.
MNExit == variant = "mn" /\ pc = "idle" /\ ~exited /\ ExitSend(0)

\* The later sends of exit().
MPExitSend == variant = "mp" /\ pc = "exit" /\ ExitSend(n_sent)
MNExitSend == variant = "mn" /\ pc = "exit" /\ ExitSend(n_sent)

\* ------------------------------------------------------------------ system
\* update() can be called on a manager of class v that is not inside an
\* update() call, while calls remain (the guard every update action starts
\* with).
CallUpdate(v) == variant = v /\ pc = "idle" /\ ncalls < MaxCalls

NextDist ==
    \/ CallUpdate("mp") /\ \E exp \in Batches : MPUpdate(exp)
    \/ CallUpdate("mn") /\ \E exp \in Batches : MNUpdate(exp)
    \/ MPSend
    \/ MNSend
    \/ MPRecv
    \/ MPRecvFail
    \/ \E t \in Trainers : MNRecv(t)
    \/ \E t \in Trainers : TrainerTrain(t)
    \/ \E t \in Trainers : TrainerQuit(t)
    \/ MPExit
    \/ MNExit
    \/ MPExitSend
    \/ MNExitSend

Next ==
    \/ CallUpdate("local") /\ \E exp \in Batches : LocalUpdate(exp)
    \/ CallUpdate("local") /\
           \E exp \in Batches : \E f \in DOMAIN exp, before \in SUBSET DOMAIN exp :
               LocalUpdateRaise(exp, f, before)
    \/ NextDist

Spec == Init /\ [][Next]_vars

\* The multi-process and multi-node managers alone, with default thresholds.
SpecAssign == InitAssign /\ [][NextDist]_vars

\* ------------------------------------------------- get_state() as a call
\* Mutant: get_state() takes a waiting reply off the first trainer's channel.
GetStateDrains(since_version) ==
    /\ pc \in {"idle", "send", "recv", "exit"}
    /\ reads < MaxReads
    /\ reads' = reads + 1
    /\ read_result' = get_state(since_version)
    /\ chan_from' = [t \in DOMAIN chan_from |->
           IF t = 0 /\ chan_from[t] # <<>> THEN Tail(chan_from[t]) ELSE chan_from[t]]
    /\ UNCHANGED <<config, sending, history, policy_state, new_exp_counter, store_size,
                   exp_cache, num_exp, policy2trainer, trainer2policies, chan_to,
                   trainer_state, trainer_alive, pc, updated, n_recv, exited,
                   ncalls, cur_exp, outcome, twin, ma, wf, callback>>

\* A call get_state(since_version) on a constructed manager, between or
\* during update() calls: it returns the mapping and assigns nothing.
GetState(since_version) ==
    /\ pc \in {"idle", "send", "recv", "exit"}
    /\ reads < MaxReads
    /\ reads' = reads + 1
    /\ read_result' = get_state(since_version)
    /\ UNCHANGED <<config, manager, twin, ma, wf, callback>>

\* A call get_state() with no argument.
GetStateDefault ==
    /\ pc \in {"idle", "send", "recv", "exit"}
    /\ reads < MaxReads
    /\ reads' = reads + 1
    /\ read_result' = get_state_default
    /\ UNCHANGED <<config, manager, twin, ma, wf, callback>>

\* The managers constructed with the default thresholds.
InitRead ==
    /\ ma = NoMultiAgentPolicy
    /\ wf = NoWorkflow
    /\ NoCallback
    /\ \E v \in Variants, n \in 1 .. Len(AllNames) :
        \E k \in TrainerCounts(v) :
            Construct(v, SubSeq(AllNames, 1, n), k, <<>>, <<>>)

\* The values of since_version a caller passes: -1 and the versions.
SinceVersions == -1 .. (MaxCalls + 1)

NextRead ==
    \/ Next
    \/ \E sv \in SinceVersions : GetState(sv)
    \/ GetStateDefault

\* The managers with calls of get_state() between the steps of update().
SpecRead == InitRead /\ [][NextRead]_vars

\* ------------------------------ a local manager next to a multi-process one
\* One update() call of a LocalPolicyManager whose counters, store sizes and
\* history are those of m.
LocalRound(m, exp) ==
    LET upd == {p \in DOMAIN exp : LocalDueOn(m.counter, m.store, p, exp)}
    IN  [counter |-> [p \in Policies |->
                        IF p \in upd THEN 0
                        ELSE IF p \in DOMAIN exp THEN m.counter[p] + exp[p]
                        ELSE m.counter[p]],
         store |-> [p \in Policies |->
                        IF p \in DOMAIN exp THEN StorePut(m.store[p], exp[p])
                        ELSE m.store[p]],
         history |-> AppendHistory(m.history, upd),
         updated |-> upd]

\* update(exp) is called on the multi-process manager and on the local
\* manager constructed with the same policies and thresholds.
MPUpdateTwin(exp) ==
    /\ variant = "mp"
    /\ DistUpdateBegin(exp)
    /\ twin' = LocalRound(twin, exp)
    /\ UNCHANGED <<reads, read_result, ma, wf, post_update>>

InitTwin == Init /\ variant = "mp" /\ pc = "idle"

NextTwin ==
    \/ \E exp \in Batches : MPUpdateTwin(exp)
    \/ MPSend
    \/ MPRecv
    \/ \E t \in Trainers : TrainerTrain(t)

SpecTwin == InitTwin /\ [][NextTwin]_vars

\* ------------------------------------------------------- MultiAgentPolicy
\* The ids of policy_dict, in the order the dict iterates them.
MAIds == <<"p1", "p2", "p3">>

\* The calls (load, save, update, on_new_experiences) made on one
\* MultiAgentPolicy.
MaxPolicyCalls == 2

\* A policy state: where it came from (s) and the number of learn() calls
\* that updated it since (n).
StateOf(x) == [s |-> x, n |-> 0]

\* The states a policy holds in memory, and the states found in files.
MemStates == {StateOf("m0")}

FileStates == {StateOf("f0")}

\* What is at os.path.join(dir_path, policy_id): no file, or a saved state.
NoFile == [exists |-> FALSE, state |-> StateOf("none")]

\* The state a policy passed to update() carries.
UpdateStates == {StateOf("u0")}

FileEntries ==
    {NoFile} \cup
    {[exists |-> TRUE, state |-> x] : x \in FileStates \cup MemStates \cup UpdateStates}

\* policy.load(path): the state read from the file; FileNotFoundError
\* (ok = FALSE) when there is none.
PolicyLoad(state, file) ==
    IF file.exists THEN [ok |-> TRUE, state |-> file.state]
    ELSE [ok |-> FALSE, state |-> state]

\* Mutant: the first missing file ends the loop; the policies after it are
\* not loaded.
LoadFromStopsAtMissing(i, mem, files) ==
    IF \E j \in 1 .. Len(MAIds) : ~files[MAIds[j]].exists
    THEN LET first == CHOOSE j \in 1 .. Len(MAIds) :
                          /\ ~files[MAIds[j]].exists
                          /\ \A l \in 1 .. (j - 1) : files[MAIds[l]].exists
         IN  [p \in DOMAIN mem |->
                 IF \E l \in 1 .. (first - 1) : MAIds[l] = p
                 THEN files[p].state ELSE mem[p]]
    ELSE [p \in DOMAIN mem |-> files[p].state]

\* The loop of load() from the i-th policy on: each policy is loaded inside
\* its own try; FileNotFoundError is caught (a warning) and the loop goes on.
RECURSIVE LoadFrom(_, _, _)
LoadFrom(i, mem, files) ==
    IF i > Len(MAIds) THEN mem
    ELSE LET r == PolicyLoad(mem[MAIds[i]], files[MAIds[i]])
         IN  LoadFrom(i + 1, [mem EXCEPT ![MAIds[i]] = r.state], files)

\* MultiAgentPolicy.load(dir_path)
MALoad ==
    /\ ma.op # "none"
    /\ ma.ncalls < MaxPolicyCalls
    /\ ma' = [ma EXCEPT !.mem = LoadFrom(1, ma.mem, ma.files),
                        !.op = "load", !.raised = FALSE, !.arg = <<>>,
                        !.exps = <<>>, !.ret = <<>>, !.ncalls = @ + 1]
    /\ UNCHANGED <<config, manager, reads, read_result, twin, wf, callback>>

\* MultiAgentPolicy.save(dir_path): every policy's state is written to its
\* file.
MASave ==
    /\ ma.op # "none"
    /\ ma.ncalls < MaxPolicyCalls
    /\ ma' = [ma EXCEPT !.files = [p \in DOMAIN ma.mem |->
                                      [exists |-> TRUE, state |-> ma.mem[p]]],
                        !.op = "save", !.raised = FALSE, !.arg = <<>>,
                        !.exps = <<>>, !.ret = <<>>, !.ncalls = @ + 1]
    /\ UNCHANGED <<config, manager, reads, read_result, twin, wf, callback>>

\* An id that is not a key of self.policy_dict.
UnknownId == "px"

\* The arguments update() is called with: a policy (its state) for each id of
\* some set of ids, known or not.
UpdateArgs ==
    UNION {[S -> UpdateStates] : S \in SUBSET (Range(MAIds) \cup {UnknownId})}

\* policy.update(other): the policy takes over the state of other.
PolicyUpdate(state, other) == other

\* policy_dict.keys() <= self.policy_dict.keys()
KeysKnown(pd) == DOMAIN pd \subseteq Range(MAIds)

\* Mutant: no key check before the loop; the lookup of an unknown id raises
\* once the known ids before it were updated.
update_unchecked(mem, pd) ==
    [raised |-> ~KeysKnown(pd),
     mem |-> [p \in DOMAIN mem |->
                 IF p \in DOMAIN pd THEN PolicyUpdate(mem[p], pd[p]) ELSE mem[p]]]

\* MultiAgentPolicy.update(policy_dict) on the states mem: the key check
\* raises before the loop; otherwise every named policy is updated.
update(mem, pd) ==
    IF ~KeysKnown(pd)
    THEN [raised |-> TRUE, mem |-> mem]
    ELSE [raised |-> FALSE,
          mem |-> [p \in DOMAIN mem |->
                      IF p \in DOMAIN pd THEN PolicyUpdate(mem[p], pd[p]) ELSE mem[p]]]

\* MultiAgentPolicy.update(policy_dict)
MAUpdate(pd) ==
    /\ ma.op # "none"
    /\ ma.ncalls < MaxPolicyCalls
    /\ ma' = [ma EXCEPT !.mem = update(ma.mem, pd).mem,
                        !.op = "update", !.raised = update(ma.mem, pd).raised,
                        !.arg = pd, !.exps = <<>>, !.ret = <<>>, !.ncalls = @ + 1]
    /\ UNCHANGED <<config, manager, reads, read_result, twin, wf, callback>>

\* --------------------------------- MultiAgentPolicy.on_new_experiences
\* agent_to_policy: the policy of each agent (self.policy[agent_id] is
\* self.policy_dict[agent_to_policy[agent_id]]); p2 serves no agent.
AgentToPolicy == [a1 |-> "p1", a2 |-> "p3"]

\* An agent id that is not a key of self.policy.
UnknownAgent == "ax"

\* The arguments on_new_experiences() is called with: the agent ids of
\* experiences_by_agent in the order the dict iterates them (each with a
\* batch of one experience).
ExperienceArgs ==
    {<<>>, <<"a1">>, <<"a1", "a2">>, <<"a1", UnknownAgent>>, <<UnknownAgent, "a1">>}

\* Which policies are AbsCorePolicy instances (the others are fixed).
CoreKinds ==
    {[p \in Range(MAIds) |-> TRUE], [p \in Range(MAIds) |-> p # "p3"]}

\* policy.store_experiences(exp): the batch is added to the policy's store.
StoreExperiences(size, exp) == size + exp

\* policy.learn(): returns whether an update occurred (r); the state is a
\* new one exactly then.
PolicyLearn(state, r) == IF r THEN [state EXCEPT !.n = @ + 1] ELSE state

\* The agents of exps before the first one that is not a key of self.policy
\* (all of them when there is none).
StoredAgents(exps) ==
    {exps[i] : i \in {j \in DOMAIN exps :
                        \A l \in 1 .. j : exps[l] \in DOMAIN AgentToPolicy}}

\* The first loop: the batch of each agent is stored in the agent's policy if
\* that is an AbsCorePolicy.
StoreAfter(store, core, exps) ==
    [p \in DOMAIN store |->
        IF core[p] /\ \E a \in StoredAgents(exps) : AgentToPolicy[a] = p
        THEN StoreExperiences(store[p],
                 Cardinality({a \in StoredAgents(exps) : AgentToPolicy[a] = p}))
        ELSE store[p]]

\* on_new_experiences(experiences_by_agent) on a MultiAgentPolicy m, where
\* learn() of policy p returns rets[p]: self.policy[agent_id] raises KeyError
\* at an unknown agent, after the batches of the agents before it were
\* stored; otherwise learn() is called on every AbsCorePolicy of policy_dict
\* and the ids of those whose learn() returned true are returned, in the
\* order of policy_dict.
on_new_experiences(m, exps, rets) ==
    IF \E i \in DOMAIN exps : exps[i] \notin DOMAIN AgentToPolicy
    THEN [raised |-> TRUE, mem |-> m.mem, store |-> StoreAfter(m.store, m.core, exps),
          ret |-> <<>>]
    ELSE [raised |-> FALSE,
          mem |-> [p \in DOMAIN m.mem |->
                      IF m.core[p] THEN PolicyLearn(m.mem[p], rets[p]) ELSE m.mem[p]],
          store |-> StoreAfter(m.store, m.core, exps),
          ret |-> SelectSeq(MAIds, LAMBDA p : m.core[p] /\ rets[p])]

\* MultiAgentPolicy.on_new_experiences(experiences_by_agent)
MAOnNewExperiences(exps, rets) ==
    /\ ma.op # "none"
    /\ ma.ncalls < MaxPolicyCalls
    \* rets names a return value only for the learn() calls that are made
    /\ \A p \in Range(MAIds) :
          rets[p] => /\ ma.core[p]
                     /\ \A i \in DOMAIN exps : exps[i] \in DOMAIN AgentToPolicy
    /\ LET r == on_new_experiences(ma, exps, rets) IN
        ma' = [ma EXCEPT !.mem = r.mem, !.store = r.store, !.ret = r.ret,
                         !.raised = r.raised, !.op = "on_new_experiences",
                         !.exps = exps, !.arg = <<>>, !.ncalls = @ + 1]
    /\ UNCHANGED <<config, manager, reads, read_result, twin, wf, callback>>

\* A MultiAgentPolicy over MAIds with any states in memory, and a directory
\* holding a file for any of them (next to a manager that is left alone).
InitLoad ==
    /\ Construct("local", SubSeq(AllNames, 1, 1), 1, <<>>, <<>>)
    /\ wf = NoWorkflow
    /\ NoCallback
    /\ ma \in [mem : [Range(MAIds) -> MemStates],
               files : [Range(MAIds) -> {NoFile} \cup
                            {[exists |-> TRUE, state |-> x] : x \in FileStates}],
               op : {"new"},
               raised : {FALSE},
               arg : {<<>>},
               core : CoreKinds,
               store : {[p \in Range(MAIds) |-> 0]},
               exps : {<<>>},
               ret : {<<>>},
               ncalls : {0}]

NextLoad ==
    \/ MALoad
    \/ MASave
    \/ \E pd \in UpdateArgs : MAUpdate(pd)
    \/ \E exps \in ExperienceArgs, rets \in [Range(MAIds) -> BOOLEAN] :
           MAOnNewExperiences(exps, rets)

SpecLoad == InitLoad /\ [][NextLoad]_vars

\* ------------------------------------------------------- workflow scripts
\* An environment variable that is not set.
Unset == "<unset>"

\* getenv(name, default=default)
Getenv(value, default) == IF value = Unset THEN default ELSE value

\* int(getenv("NUMGRADWORKERS", default=1))
IntOf(value) == IF value = Unset THEN 1 ELSE IF value = "2" THEN 2 ELSE 1

\* The values POLICYMANAGERTYPE is given.
ManagerTypeValues == {Unset, "simple", "multi-process", "distributed", "local", "Simple"}

\* The values config["mode"] is given.
ModeValues == {"sync", "async", "Sync", "batch"}

NoManager == [class |-> "none", data_parallel |-> FALSE, num_grad_workers |-> 0]

NoMessage == [value |-> "", supported |-> {}]

Manager(class, env) ==
    [class |-> class,
     data_parallel |-> (env.DATAPARALLEL = "True"),
     num_grad_workers |-> IntOf(env.NUMGRADWORKERS)]

\* Mutant: an unsupported type falls back to the simple manager.
get_policy_manager_fallback(env) ==
    LET manager_type == Getenv(env.POLICYMANAGERTYPE, "simple") IN
    IF manager_type = "multi-process"
    THEN [raised |-> FALSE, manager |-> Manager("MultiProcessPolicyManager", env),
          message |-> NoMessage]
    ELSE IF manager_type = "distributed"
    THEN [raised |-> FALSE, manager |-> Manager("DistributedPolicyManager", env),
          message |-> NoMessage]
    ELSE [raised |-> FALSE, manager |-> Manager("SimplePolicyManager", env),
          message |-> NoMessage]

\* get_policy_manager(): the manager returned, or the ValueError raised with
\* the value and the supported set its message names.
get_policy_manager(env) ==
    LET manager_type == Getenv(env.POLICYMANAGERTYPE, "simple") IN
    IF manager_type = "simple"
    THEN [raised |-> FALSE, manager |-> Manager("SimplePolicyManager", env),
          message |-> NoMessage]
    ELSE IF manager_type = "multi-process"
    THEN [raised |-> FALSE, manager |-> Manager("MultiProcessPolicyManager", env),
          message |-> NoMessage]
    ELSE IF manager_type = "distributed"
    THEN [raised |-> FALSE, manager |-> Manager("DistributedPolicyManager", env),
          message |-> NoMessage]
    ELSE [raised |-> TRUE, manager |-> NoManager,
          message |-> [value |-> manager_type,
                       supported |-> {"simple", "multi-process", "distributed"}]]

\* The trainer services of the manifest: one per trainer in multi-node mode.
TrainerServices(cfg) ==
    IF cfg.train_mode = "multi-node"
    THEN {<<"trainer", i>> : i \in 0 .. (cfg.num_trainers - 1)}
    ELSE {}

\* The rollout worker services: one per rollout worker when the rollout mode
\* is multi-node.
RolloutWorkerServices(cfg) ==
    IF cfg.rollout_mode = "multi-node"
    THEN {<<"rollout_worker", i>> : i \in 0 .. (cfg.num_rollout_workers - 1)}
    ELSE {}

\* The actor services: one per actor.
ActorServices(cfg) == {<<"actor", i>> : i \in 0 .. (cfg.num_actors - 1)}

\* docker_compose_yml.py: the services of the manifest written to
\* docker-compose.yml, or the ValueError raised on the mode.
compose(cfg) ==
    IF cfg.mode = "sync"
    THEN [raised |-> FALSE, written |-> TRUE, message |-> NoMessage,
          services |-> {<<"redis", 0>>, <<"learner", 0>>} \cup TrainerServices(cfg)
                           \cup RolloutWorkerServices(cfg)]
    ELSE IF cfg.mode = "async"
    THEN [raised |-> FALSE, written |-> TRUE, message |-> NoMessage,
          services |-> {<<"redis", 0>>, <<"policy_server", 0>>}
                           \cup TrainerServices(cfg) \cup ActorServices(cfg)]
    ELSE [raised |-> TRUE, written |-> FALSE, services |-> {},
          message |-> [value |-> cfg.mode, supported |-> {"sync", "async"}]]

\* python workflows/policy_manager.py reaches get_policy_manager().
WFGetPolicyManager ==
    /\ wf.op # "none"
    /\ wf' = [wf EXCEPT !.op = "get_policy_manager",
                        !.manager = get_policy_manager(wf.env)]
    /\ UNCHANGED <<config, manager, reads, read_result, twin, ma, callback>>

\* python docker_compose_yml.py
WFCompose ==
    /\ wf.op # "none"
    /\ wf' = [wf EXCEPT !.op = "compose", !.compose = compose(wf.config)]
    /\ UNCHANGED <<config, manager, reads, read_result, twin, ma, callback>>

\* Any environment and any config.yml that has all the keys the script reads
\* (next to a manager that is left alone).
InitWorkflow ==
    /\ Construct("local", SubSeq(AllNames, 1, 1), 1, <<>>, <<>>)
    /\ ma = NoMultiAgentPolicy
    /\ NoCallback
    /\ wf \in [env : [POLICYMANAGERTYPE : ManagerTypeValues,
                       DATAPARALLEL : {Unset, "True", "False"},
                       NUMGRADWORKERS : {Unset, "1", "2"}],
               config : [mode : ModeValues,
                         train_mode : {"multi-process", "multi-node"},
                         num_trainers : 1 .. MaxTrainers,
                         rollout_mode : {"single-process", "multi-node"},
                         num_rollout_workers : 0 .. MaxRolloutWorkers,
                         num_actors : 0 .. MaxActors],
               op : {"start"},
               manager : {[raised |-> FALSE, manager |-> NoManager, message |-> NoMessage]},
               compose : {[raised |-> FALSE, written |-> FALSE, message |-> NoMessage,
                           services |-> {}]}]

NextWorkflow == WFGetPolicyManager \/ WFCompose

SpecWorkflow == InitWorkflow /\ [][NextWorkflow]_vars

\* ------------------------------------------------ the post-update callback
\* The managers constructed with the default thresholds, with and without a
\* post_update callback.
InitCallback ==
    /\ ma = NoMultiAgentPolicy
    /\ wf = NoWorkflow
    /\ post_update \in BOOLEAN
    /\ trackers = <<>>
    /\ post_calls = <<>>
    /\ \E v \in Variants, n \in 1 .. Len(AllNames) :
        \E k \in TrainerCounts(v) :
            Construct(v, SubSeq(AllNames, 1, n), k, <<>>, <<>>)

SpecCallback == InitCallback /\ [][Next]_vars

\* ================================================================== claims
\* A step in which update() is called.
UpdateCalled == ncalls' = ncalls + 1

\* A step in which an update() call returns normally.
UpdateReturns ==
    \/ variant = "local" /\ UpdateCalled /\ outcome' = "ok"
    \/ pc = "recv" /\ pc' = "idle" /\ outcome' = "ok"

\* The ways an update() call ends with an exception.
Errors == {"KeyError", "SendError", "RecvError", "LearnError", "CallbackError"}

\* A step in which an update() call ends with an exception.
UpdateRaises == (UpdateCalled \/ pc \in {"send", "recv"}) /\ outcome' \in Errors

\* ------------------------------------------------------------------ C1
\* C1 as stated: every update() call that returns increases version by
\* exactly one, also when no policy was due.
C1_EveryCallBumpsVersion == [][UpdateReturns => version' = version + 1]_vars

\* ------------------------------------------------------------------ C2
\* C2: in an update() call of the local manager that returns, every policy of
\* the mapping has its batch stored;
\* learn() is called for it (its state advances) exactly when the experience
\* counted since the last learn() reaches the trigger and the stored total
\* reaches the warmup, and then the since-last-update counter is reset to 0,
\* otherwise the counter keeps the accumulated amount.
C2_TriggerWarmup ==
    [][(variant = "local" /\ UpdateReturns) =>
        \A p \in DOMAIN cur_exp' :
            LET pending == new_exp_counter[p] + cur_exp'[p]
                total == store_size[p] + cur_exp'[p]
            IN  /\ store_size'[p] = total
                /\ IF pending >= update_trigger[p] /\ total >= warmup[p]
                   THEN /\ policy_state'[p] = policy_state[p] + 1
                        /\ new_exp_counter'[p] = 0
                        /\ p \in updated'
                   ELSE /\ policy_state'[p] = policy_state[p]
                        /\ new_exp_counter'[p] = pending
                        /\ p \notin updated']_vars

\* Trigger 2, warmup 2, three rounds for A: the first learn() happens in the
\* third round, once two experiences are pending and stored.
C2_Witness ==
    /\ variant = "local" /\ ncalls = 3 /\ "A" \in DOMAIN cur_exp
    /\ update_trigger["A"] = 2 /\ warmup["A"] = 2
    /\ cur_exp["A"] = 1 /\ store_size["A"] = 2
    /\ policy_state["A"] = 1 /\ new_exp_counter["A"] = 0 /\ version = 1

\* ------------------------------------------------------------------ C3
\* C3: for every since_version, get_state(since_version) returns a mapping
\* whose keys are the union of the history entries since_version+1 .. version,
\* each with the policy's current cached state.
C3_GetStateUnion ==
    \A sv \in SinceVersions :
        LET r == get_state(sv) IN
        /\ r.ok
        /\ DOMAIN r.state = UNION {history[i + 1] : i \in (sv + 1) .. version}
        /\ \A name \in DOMAIN r.state : r.state[name] = policy_state[name]

\* Round 1 updated {A}, round 2 {B}, round 3 {A}: get_state(0) has A and B
\* with A's latest state, get_state(2) has A only.
C3_Witness ==
    /\ Len(names) = 2
    /\ history = <<{"A", "B"}, {"A"}, {"B"}, {"A"}>>
    /\ DOMAIN get_state(0).state = {"A", "B"}
    /\ get_state(0).state["A"] = 2
    /\ DOMAIN get_state(2).state = {"A"}

\* ------------------------------------------------------------------ C4
\* C4 as stated: after every update() call that returns, get_state() with
\* no argument returns exactly the policies updated in that call (none if
\* the call updated none).
C4_DefaultIsLastCall ==
    [][UpdateReturns => DOMAIN get_state_default'.state = updated']_vars

\* ------------------------------------------------------------------ C5
\* C5 as stated: every update() call that returns has appended a history
\* entry, the set of policies updated in the call, also when that set is
\* empty.
C5_EveryCallAppends ==
    [][UpdateReturns => history' = Append(history, updated')]_vars

\* A step of update()'s send loop: one send returns or raises.
SendStep == pc = "send" /\ <<pc, n_sent>>' # <<pc, n_sent>>

\* The policies whose batch is in a message sent in this step.
FlushedNow ==
    {p \in Policies : \E t \in DOMAIN chan_to :
        /\ Len(chan_to'[t]) > Len(chan_to[t])
        /\ chan_to'[t][Len(chan_to'[t])].type = "train"
        /\ p \in DOMAIN chan_to'[t][Len(chan_to'[t])].experiences}

\* ------------------------------------------------------------------ C6
\* C6: in the multi-process and multi-node managers an update() call does not
\* raise: once the batches are counted, a policy that is not due keeps its
\* cached batch, and the call sends every trainer in turn a message holding
\* exactly its policies that are due, and then goes on to receive.
C6_PartialRoundCompletes ==
    [][variant # "local" =>
        /\ outcome' # "KeyError"
        /\ UpdateCalled =>
              /\ pc' = "send"
              /\ \A p \in Policies \ updated' :
                    exp_cache'[p] = exp_cache[p] +
                        (IF p \in DOMAIN cur_exp' THEN cur_exp'[p] ELSE 0)
        /\ SendStep =>
              /\ pc' \in {"send", "recv"}
              /\ LET t == NthConn(n_sent) IN
                    chan_to'[t] = Append(chan_to[t],
                        [type |-> "train",
                         experiences |->
                             [p \in Range(trainer2policies[t]) \cap updated |->
                                 exp_to_send[p]]])]_vars

\* ------------------------------------------------------------------ C7
\* C7: update({}) completes without error and leaves get_state(since_version)
\* unchanged for every since_version. (That version should increase with such
\* a call is the statement of C1.)
C7_EmptyUpdateIsNoOp ==
    [][(cur_exp' = <<>> /\ (UpdateCalled \/ pc \in {"send", "recv"})) =>
        /\ outcome' # "KeyError"
        /\ \A sv \in SinceVersions : get_state(sv)' = get_state(sv)]_vars

\* ------------------------------------------------------------------ C8
\* C8: an update() call leaves every policy absent from the mapping
\* untouched: its counters, its stored total, its cached batch and its cached
\* state are unchanged, it is not in the round's updated set, no message sent
\* in the call asks a trainer to train it, and no reply received by the call
\* changes its state.
C8_AbsentUntouched ==
    [][/\ UpdateCalled =>
            \A p \in Policies \ DOMAIN cur_exp' :
                /\ new_exp_counter'[p] = new_exp_counter[p]
                /\ store_size'[p] = store_size[p]
                /\ num_exp'[p] = num_exp[p]
                /\ exp_cache'[p] = exp_cache[p]
                /\ policy_state'[p] = policy_state[p]
                /\ p \notin updated'
                /\ p \notin FlushedNow
       /\ pc \in {"send", "recv"} =>
            \A p \in Policies \ DOMAIN cur_exp :
                /\ new_exp_counter'[p] = new_exp_counter[p]
                /\ store_size'[p] = store_size[p]
                /\ num_exp'[p] = num_exp[p]
                /\ exp_cache'[p] = exp_cache[p]
                /\ policy_state'[p] = policy_state[p]
                /\ p \notin FlushedNow]_vars

\* A multi-process call for A alone, which was due, while B has a cached
\* batch.
C8_Witness ==
    /\ variant = "mp" /\ Len(names) = 2 /\ DOMAIN cur_exp = {"A"}
    /\ updated = {"A"} /\ exp_cache["B"] = 1 /\ num_exp["B"] = 1

\* ------------------------------------------------------------------ C9
\* C9: the i-th policy (from 0) is assigned to trainer i mod K, in the
\* multi-process and the multi-node manager alike, and constructing the
\* assignment again from the same inputs gives the same assignment.
C9_RoundRobin ==
    /\ \A i \in 1 .. Len(names) :
        /\ policy2trainer[names[i]] = (i - 1) % num_trainers
        /\ (i - 1) % num_trainers \in DOMAIN trainer2policies
        /\ names[i] \in Range(trainer2policies[(i - 1) % num_trainers])
    /\ policy2trainer = Assignment(variant, names, num_trainers).p2t
    /\ trainer2policies = Assignment(variant, names, num_trainers).t2p

\* Three policies on two trainers of the multi-node manager: the third policy
\* wraps around to the first trainer.
C9_Witness ==
    /\ variant = "mn" /\ Len(names) = 3 /\ num_trainers = 2
    /\ policy2trainer = [p \in {"A", "B", "C"} |-> IF p = "B" THEN 1 ELSE 0]
    /\ trainer2policies[0] = <<"A", "C">>

\* ------------------------------------------------------------------ C10
\* C10: in every state the assignment is the one computed at construction;
\* every policy has exactly one trainer, the trainers' policy lists are
\* disjoint, hold no policy twice and cover the policies, and
\* trainer2policies is the inverse of policy2trainer.
C10_AssignmentStatic ==
    /\ policy2trainer = Assignment(variant, names, num_trainers).p2t
    /\ trainer2policies = Assignment(variant, names, num_trainers).t2p
    /\ DOMAIN policy2trainer = Policies
    /\ \A p \in Policies : policy2trainer[p] \in Trainers
    /\ \A t \in DOMAIN trainer2policies :
        /\ \A i, j \in DOMAIN trainer2policies[t] :
              i # j => trainer2policies[t][i] # trainer2policies[t][j]
        /\ \A u \in DOMAIN trainer2policies :
              t # u => Range(trainer2policies[t]) \cap Range(trainer2policies[u]) = {}
    /\ UNION {Range(trainer2policies[t]) : t \in DOMAIN trainer2policies} = Policies
    /\ \A p \in Policies, t \in Trainers :
          (policy2trainer[p] = t) <=>
              (t \in DOMAIN trainer2policies /\ p \in Range(trainer2policies[t]))

\* After two update() calls and exit() on three policies and two trainers.
C10_Witness ==
    /\ Len(names) = 3 /\ num_trainers = 2 /\ ncalls >= 2 /\ exited
    /\ \E t \in Trainers : ~trainer_alive[t]

\* ------------------------------------------------------------------ C11
\* The trainers the manager sends a message to in this step.
SentNow == {t \in DOMAIN chan_to : Len(chan_to'[t]) > Len(chan_to[t])}

\* C11: whenever the manager, not yet exited, sends a message (a round's
\* batch, or the quit of exit()) to a trainer, that trainer has no earlier
\* message still to handle and no reply the manager has not yet received.
C11_NoPipelining ==
    [][~exited =>
        \A t \in SentNow : chan_to[t] = <<>> /\ chan_from[t] = <<>>]_vars

\* ------------------------------------------------------------------ C12
\* C12: when update() of the multi-process or multi-node manager returns,
\* every trainer that was sent a message in the round has handled it, its
\* reply has been received, and every policy of the round carries the state
\* its trainer returned.
C12_FullBarrier ==
    [][(UpdateReturns /\ variant # "local") =>
        /\ \A t \in TrainerKeys : chan_to'[t] = <<>> /\ chan_from'[t] = <<>>
        /\ \A p \in updated' : policy_state'[p] = trainer_state'[p]]_vars

\* ------------------------------------------------------------------ C13
\* C13: what get_state() reads (the history and the cached policy states)
\* does not change while a round is in progress: it changes only in the step
\* that completes the round, all at once.
C13_SnapshotAtomic ==
    [][(pc' \in {"send", "recv"}) =>
          (history' = history /\ policy_state' = policy_state)]_vars

\* ------------------------------------------------------------------ C14
\* C14: when learn() of a policy raises in update() of the local manager, the
\* call ends with that exception, and the history and version are what they
\* were before the call.
C14_RaiseCommitsNothing ==
    [][(variant = "local" /\ UpdateCalled /\ outcome' = "LearnError") =>
        /\ history' = history
        /\ version' = version
        /\ pc' = "idle"]_vars

\* A call for A and B in which A learned and then B's learn() raised: no
\* entry records A.
C14_Witness ==
    /\ variant = "local" /\ ncalls = 1 /\ outcome = "LearnError"
    /\ updated = {"A"} /\ policy_state["A"] = 1 /\ DOMAIN cur_exp = {"A", "B"}
    /\ history = <<{"A", "B"}>>

\* ------------------------------------------------------------------ C15
\* C15: an update() call made after exit() on a multi-process or multi-node
\* manager never returns normally, it ends with an exception; and while it
\* waits for a reply it is not blocked for ever: the receive it waits in can
\* return or raise, or a trainer it waits for has a message to handle.
C15_UpdateAfterExitFails ==
    /\ [][(exited /\ (UpdateCalled \/ pc \in {"send", "recv"}) /\ pc' = "idle") =>
             outcome' \in Errors]_vars
    /\ [](exited /\ pc = "send" => ENABLED (MPSend \/ MNSend))
    /\ [](exited /\ pc = "recv" =>
             IF variant = "mp"
             THEN ENABLED (\/ MPRecv
                           \/ MPRecvFail
                           \/ TrainerTrain(NthConn(n_recv))
                           \/ TrainerQuit(NthConn(n_recv)))
             ELSE ENABLED (\E t \in Trainers :
                              \/ MNRecv(t)
                              \/ TrainerTrain(t)
                              \/ TrainerQuit(t)))

\* ------------------------------------------------------------------ C16
\* The trainer units of the manager: the processes it started, or the
\* num_trainers workers of the endpoint.
TrainerPool == IF variant = "mn" THEN Trainers ELSE TrainerKeys

\* exit() is called (and its first send returns).
ExitCalled == ~exited /\ pc = "idle" /\ (pc' = "exit" \/ exited')

\* C16: exit() sends exactly one quit/EXIT message to every trainer of the
\* pool, also to a worker that was assigned no policy: its i-th send (from
\* 0) hands the quit message to the i-th trainer of the pool, and it returns
\* after the send to the last one.
C16_ExitSignalsAll ==
    [][LET i == IF pc = "exit" THEN n_sent ELSE 0 IN
        /\ (ExitCalled \/ (pc = "exit" /\ <<pc, n_sent>>' # <<pc, n_sent>>)) =>
              \E t \in TrainerPool :
                  /\ chan_to' = [chan_to EXCEPT ![t] = Append(@, QuitMsg)]
                  /\ Cardinality({u \in TrainerPool : u < t}) = i
        /\ (~exited /\ exited') => i + 1 = Cardinality(TrainerPool)]_vars

\* ------------------------------------------------------------------ C17
\* C17: a manager constructed with a policy that is not an AbsCorePolicy
\* ended in ValueError with nothing created: no history, no thresholds,
\* counters, caches or assignment, no trainer process started by it, no
\* message sent, and no operation ever runs on it.
C17_InvalidPolicyFailsFast ==
    (\E p \in DOMAIN is_core : ~is_core[p]) =>
        /\ pc = "ValueError"
        /\ history = <<>> /\ update_trigger = <<>> /\ warmup = <<>>
        /\ policy_state = <<>> /\ new_exp_counter = <<>> /\ exp_cache = <<>>
        /\ num_exp = <<>> /\ policy2trainer = <<>> /\ trainer2policies = <<>>
        /\ \A t \in Trainers : chan_to[t] = <<>> /\ chan_from[t] = <<>>
        /\ variant = "mp" => \A t \in Trainers : ~trainer_alive[t]
        /\ ncalls = 0 /\ ~exited

\* A multi-process manager over A and B where B is not an AbsCorePolicy.
C17_Witness ==
    /\ variant = "mp" /\ names = <<"A", "B">> /\ num_trainers = 2
    /\ is_core["A"] /\ ~is_core["B"] /\ pc = "ValueError"

\* ------------------------------------------------------------------ C18
\* C18: a get_state() call, with any argument and also in the middle of an
\* update() round, sends and receives nothing and leaves the history, the
\* cached states, the counters, the caches, the assignment and the position
\* of the round unchanged.
C18_GetStatePureRead ==
    [][(reads' = reads + 1) =>
        /\ chan_to' = chan_to /\ chan_from' = chan_from
        /\ history' = history /\ policy_state' = policy_state
        /\ new_exp_counter' = new_exp_counter /\ store_size' = store_size
        /\ exp_cache' = exp_cache /\ num_exp' = num_exp
        /\ policy2trainer' = policy2trainer /\ trainer2policies' = trainer2policies
        /\ pc' = pc /\ n_recv' = n_recv /\ updated' = updated
        /\ exp_to_send' = exp_to_send /\ n_sent' = n_sent
        /\ exited' = exited /\ ncalls' = ncalls]_vars

\* get_state() was called while update() waited for a reply that had
\* arrived: the reply is still there.
C18_Witness ==
    /\ reads = 1 /\ pc = "recv" /\ n_recv = 0 /\ read_result.ok
    /\ DOMAIN read_result.state = Policies
    /\ \A t \in TrainerKeys : chan_from[t] # <<>>

\* ------------------------------------------------------------------ C19
\* The keys get_state(since_version) returns under history h.
KeysSince(h, sv) == UNION {h[i + 1] : i \in (sv + 1) .. (Len(h) - 1)}

\* C19: after every update() call, the multi-process manager and the local
\* manager fed the same calls have marked the same policies as updated,
\* report the same version, and return the same keys from get_state for every
\* since_version.
C19_LocalAndMPAgree ==
    (variant = "mp" /\ pc = "idle" /\ ncalls > 0) =>
        /\ updated = twin.updated
        /\ Len(history) = Len(twin.history)
        /\ \A sv \in SinceVersions :
              KeysSince(history, sv) = KeysSince(twin.history, sv)

\* ------------------------------------------------------------------ C20
\* C20: load() raises nothing; every policy whose file is absent keeps the
\* state it had in memory, and every policy whose file exists carries the
\* state of its file, wherever it stands relative to the missing ones.
C20_LoadSkipsMissing ==
    [][(ma'.op = "load") =>
        /\ ~ma'.raised
        /\ ma'.files = ma.files
        /\ \A p \in Range(MAIds) :
              ma'.mem[p] = IF ma.files[p].exists THEN ma.files[p].state
                           ELSE ma.mem[p]]_vars

\* The file of the second policy was missing: the first and the third were
\* loaded, the second kept its state.
C20_Witness ==
    /\ ma.op = "load" /\ ~ma.raised
    /\ ~ma.files["p2"].exists /\ ma.mem["p2"] = StateOf("m0")
    /\ ma.files["p1"].exists /\ ma.mem["p1"] = StateOf("f0")
    /\ ma.files["p3"].exists /\ ma.mem["p3"] = StateOf("f0")

\* ------------------------------------------------------------------ C21
\* C21: for a manager type other than simple, multi-process, distributed,
\* get_policy_manager() raises an error whose message names the value and the
\* three supported types, and returns no manager; for a supported (or unset)
\* type it raises nothing. For a mode other than sync, async the compose
\* script raises an error naming the value and the two supported modes and
\* writes no manifest.
C21_UnsupportedStringsFail ==
    /\ wf.op = "get_policy_manager" =>
          LET t == Getenv(wf.env.POLICYMANAGERTYPE, "simple") IN
          IF t \in {"simple", "multi-process", "distributed"}
          THEN ~wf.manager.raised /\ wf.manager.manager.class # "none"
          ELSE /\ wf.manager.raised
               /\ wf.manager.manager = NoManager
               /\ wf.manager.message.value = t
               /\ wf.manager.message.supported =
                      {"simple", "multi-process", "distributed"}
    /\ wf.op = "compose" =>
          IF wf.config.mode \in {"sync", "async"}
          THEN ~wf.compose.raised /\ wf.compose.written
          ELSE /\ wf.compose.raised
               /\ ~wf.compose.written
               /\ wf.compose.message.value = wf.config.mode
               /\ wf.compose.message.supported = {"sync", "async"}

\* POLICYMANAGERTYPE=local: the call raised, naming "local"; then the
\* compose script, with mode batch, raised, naming "batch", and wrote nothing.
C21_Witness ==
    /\ wf.env.POLICYMANAGERTYPE = "local"
    /\ wf.manager.raised /\ wf.manager.message.value = "local"
    /\ wf.op = "compose" /\ wf.config.mode = "batch"
    /\ wf.compose.raised /\ wf.compose.message.value = "batch"
    /\ ~wf.compose.written

\* ------------------------------------------------------------------ C22
\* The rounds r >= 1 whose history entry names policy p.
RoundsNaming(p) == {r \in 2 .. Len(history) : p \in history[r]}

\* A batch of policy p that a trainer has not yet learned from, or a reply
\* with a state of p that the manager has not yet received.
InFlight(p) ==
    \E t \in DOMAIN chan_to :
        \/ \E i \in DOMAIN chan_to[t] : p \in DOMAIN chan_to[t][i].experiences
        \/ \E i \in DOMAIN chan_from[t] : p \in DOMAIN chan_from[t][i].policy

\* C22: a policy is named by at most as many history entries (rounds r >= 1)
\* as its cached state has learn() calls behind it; and when a round of the
\* multi-process or multi-node manager has completed, every policy of its
\* entry has no batch still to be learned and no reply still to be received,
\* and its cached state is the state its trainer holds.
C22_NeverStale ==
    pc # "ValueError" =>
        /\ \A p \in Policies : Cardinality(RoundsNaming(p)) <= policy_state[p]
        /\ (variant # "local" /\ pc = "idle" /\ outcome = "ok") =>
              \A p \in updated : ~InFlight(p) /\ policy_state[p] = trainer_state[p]

\* ------------------------------------------------------------------ C23
\* The replies trainer t has sent and the manager has not received, plus
\* those it will send for the LEARN messages it has not handled yet.
RepliesDue(t) ==
    Len(chan_from[t]) +
    Cardinality({i \in DOMAIN chan_to[t] : chan_to[t][i].type = "train"})

RECURSIVE SumRepliesDue(_)
SumRepliesDue(S) ==
    IF S = {} THEN 0
    ELSE LET t == CHOOSE x \in S : TRUE IN RepliesDue(t) + SumRepliesDue(S \ {t})

\* The replies update() still waits for in this round.
RepliesAwaited == num_trainers - n_recv

\* The cached states ps after the states of a reply were applied.
ApplyReplyTo(ps, result) ==
    [p \in DOMAIN ps |->
        IF p \in DOMAIN result.policy THEN result.policy[p] ELSE ps[p]]

\* C23: while a round of the multi-node manager receives, the order of
\* arrival cannot change its outcome: every reply that is or will be there is
\* one the round receives (none is left to whichever arrives later), and
\* applying two trainers' replies in either order gives the same states.
C23_ArrivalOrderIrrelevant ==
    (variant = "mn" /\ pc = "recv") =>
        /\ SumRepliesDue(Trainers) <= RepliesAwaited
        /\ \A t, u \in Trainers :
              (t # u /\ chan_from[t] # <<>> /\ chan_from[u] # <<>>) =>
                  ApplyReplyTo(ApplyReplyTo(policy_state, Head(chan_from[t])),
                               Head(chan_from[u]))
                  = ApplyReplyTo(ApplyReplyTo(policy_state, Head(chan_from[u])),
                                 Head(chan_from[t]))

\* ------------------------------------------------------------------ C24
\* C24: while a round of the multi-node manager receives, it waits for no
\* more replies than the trainers have sent or will send for the LEARN
\* messages they were sent, so the round returns once they have replied.
C24_WaitsForSentOnly ==
    (variant = "mn" /\ pc = "recv") => RepliesAwaited <= SumRepliesDue(Trainers)

\* ------------------------------------------------------------------ C25
\* The size of the batch of policy p in the message sent to its trainer in
\* this step (0 if none is sent).
SentSize(p) ==
    IF p \in FlushedNow
    THEN LET q == chan_to'[policy2trainer[p]] IN q[Len(q)].experiences[p]
    ELSE 0

\* What the call popped from the cache of policy p (0 if nothing).
Popped(p) == IF p \in updated' THEN exp_cache[p] + cur_exp'[p] ELSE 0

\* C25: in every update() call of the multi-process or multi-node manager,
\* also one that ends in an error, what is received for a policy is what its
\* cached batch grows by plus what is sent to its trainer (so that, summed
\* over the calls, received = cached + sent), and a batch that was sent is
\* no longer cached: what the call counts is what stays cached plus what it
\* pops, every send hands the trainer the popped batches of its policies,
\* and the call does not stop before every trainer was sent its message.
C25_ExperienceMoved ==
    [][variant # "local" =>
        /\ UpdateCalled =>
              /\ pc' = "send"
              /\ \A p \in Policies :
                    /\ num_exp'[p] - num_exp[p] =
                          (exp_cache'[p] - exp_cache[p]) + Popped(p)
                    /\ p \in updated' => exp_cache'[p] = 0
        /\ SendStep =>
              /\ pc' \in {"send", "recv"}
              /\ FlushedNow = Range(trainer2policies[NthConn(n_sent)])
              /\ \A p \in FlushedNow :
                    SentSize(p) = exp_to_send[p] /\ exp_cache'[p] = 0]_vars

\* ------------------------------------------------------------------ C26
\* Policy p is due: its pending amount has reached its trigger and its total
\* has reached its warmup.
LeftDue(p) ==
    IF variant = "local"
    THEN new_exp_counter[p] >= update_trigger[p] /\ store_size[p] >= warmup[p]
    ELSE exp_cache[p] >= update_trigger[p] /\ num_exp[p] >= warmup[p]

\* C26 as stated: when an update() call has completed, no policy of the
\* manager is due.
C26_NoPolicyLeftDue ==
    [][UpdateReturns => \A p \in Policies : ~LeftDue(p)']_vars

\* C26, amended: when an update() call has completed, no policy of the
\* call's mapping is due, and in the multi-process and multi-node managers
\* no policy at all.
C26_NoNamedPolicyLeftDue ==
    [][UpdateReturns =>
        /\ \A p \in DOMAIN cur_exp' : ~LeftDue(p)'
        /\ variant # "local" => \A p \in Policies : ~LeftDue(p)']_vars

\* A call of the local manager for B alone completed after a call in which
\* A's learn() raised: A is still due.
C26_Witness ==
    /\ variant = "local" /\ ncalls = 2 /\ outcome = "ok" /\ pc = "idle"
    /\ DOMAIN cur_exp = {"B"} /\ updated = {"B"} /\ LeftDue("A")

\* ------------------------------------------------------------------ C27
\* The manager was constructed without update_trigger and without warmup.
DefaultThresholds == trigger_arg = <<>> /\ warmup_arg = <<>>

\* What is pending for policy p since its last update.
Pending(p) == IF variant = "local" THEN new_exp_counter[p] ELSE exp_cache[p]

\* C27 as stated: with the default thresholds, an update() call (in which no
\* learn() raises) marks as updated exactly the policies of the mapping whose
\* batch has size >= 1.
C27_DefaultsMarkNonEmptyBatches ==
    [][(DefaultThresholds /\ UpdateCalled /\ outcome' # "LearnError") =>
        updated' = {p \in DOMAIN cur_exp' : cur_exp'[p] >= 1}]_vars

\* C27, amended: with the default thresholds every trigger and warmup is 1,
\* an update() call (in which no learn() raises) marks as updated exactly the
\* policies of the mapping with at least one experience pending, this batch
\* included, and experience is left pending only by a call in which learn()
\* raises.
C27_DefaultsMarkPending ==
    [][DefaultThresholds =>
        /\ \A p \in Policies : update_trigger[p] = 1 /\ warmup[p] = 1
        /\ (UpdateCalled /\ outcome' # "LearnError") =>
              updated' = {p \in DOMAIN cur_exp' : Pending(p) + cur_exp'[p] >= 1}
        /\ \A p \in Policies :
              (Pending(p) = 0 /\ Pending(p)' > 0) =>
                  (UpdateCalled /\ outcome' = "LearnError")]_vars

\* A's learn() raised in the first call; the second call, with an empty batch
\* for A, marked A.
C27_Witness ==
    /\ variant = "local" /\ DefaultThresholds /\ ncalls = 2 /\ outcome = "ok"
    /\ DOMAIN cur_exp = {"A"} /\ cur_exp["A"] = 0 /\ updated = {"A"}

\* ------------------------------------------------------------------ C28
\* The most recent call of the callback.
LastPostCall == post_calls[Len(post_calls)]

\* One tracker for each trainer that was sent this round's message and
\* replied, and no other.
OnePerTrainer(trks) ==
    /\ Len(trks) = Cardinality(TrainerKeys)
    /\ Range(trks) = TrainerKeys

\* A step in which an update() call completes its round: it returns, or the
\* callback it called at its end raised.
UpdateCompletes ==
    \/ UpdateReturns
    \/ (UpdateCalled \/ pc = "recv") /\ outcome' = "CallbackError"

\* C28: with a callback configured, a step in which update() completes calls
\* it exactly once, when the round's history entry is already recorded (the
\* manager's version at the call is the one update() returns with), with one
\* tracker per trainer that replied this round in the multi-process and
\* multi-node managers (one per policy in the local manager); no other step
\* calls it, and without a callback nothing is ever called.
C28_CallbackOncePerCompletedCall ==
    [][/\ (UpdateCompletes /\ post_update) =>
             /\ Len(post_calls') = Len(post_calls) + 1
             /\ LastPostCall'.version = version'
             /\ IF variant = "local"
                THEN LastPostCall'.trackers = names
                ELSE OnePerTrainer(LastPostCall'.trackers)
       /\ ~(UpdateCompletes /\ post_update) => post_calls' = post_calls]_vars

\* ------------------------------------------------------------------ C29
\* The state of every managed policy.
AllStates == [ok |-> TRUE, state |-> [name \in Policies |-> policy_state[name]]]

\* C29: on a constructed manager, history entry 0 is the full policy set,
\* get_state(-1) returns every managed policy, get_state() of a manager on
\* which update() was never called returns every managed policy, and
\* get_state(v) returns the empty mapping for every v >= version.
C29_EntryZeroIsFullSet ==
    pc # "ValueError" =>
        /\ HistAt(0) = Policies
        /\ get_state(-1) = AllStates
        /\ ncalls = 0 => get_state_default = AllStates
        /\ \A v \in version .. (MaxCalls + 1) :
              get_state(v) = [ok |-> TRUE, state |-> <<>>]

\* Two rounds were recorded, neither of them naming both policies.
C29_Witness ==
    /\ pc = "idle" /\ version = 2 /\ Policies = {"A", "B"}
    /\ HistAt(1) = {"A"} /\ HistAt(2) = {"B"}
    /\ policy_state = [A |-> 1, B |-> 1]

\* ------------------------------------------------------------------ C30
\* C30: an update(policy_dict) with a key that is not a managed policy id
\* raises and leaves every managed policy as it was; with known keys only it
\* does not raise, gives every named policy the state passed for it and
\* leaves the others as they were.
C30_KeyCheckPrecedesUpdates ==
    [][\A pd \in UpdateArgs : MAUpdate(pd) =>
        /\ ma'.arg = pd
        /\ ma'.files = ma.files
        /\ IF \E k \in DOMAIN pd : k \notin Range(MAIds)
           THEN ma'.raised /\ ma'.mem = ma.mem
           ELSE /\ ~ma'.raised
                /\ \A p \in Range(MAIds) :
                      ma'.mem[p] = IF p \in DOMAIN pd THEN pd[p] ELSE ma.mem[p]]_vars

\* An update naming p1 and an unknown id raised, and p1 does not have the
\* state that was passed for it.
C30_Witness ==
    /\ ma.op = "update" /\ ma.raised
    /\ DOMAIN ma.arg = {"p1", UnknownId}
    /\ ma.mem["p1"] # ma.arg["p1"]

\* An update naming p1 and p3 returned: both have the states passed, p2 has
\* not.
C30_WitnessKnown ==
    /\ ma.op = "update" /\ ~ma.raised
    /\ DOMAIN ma.arg = {"p1", "p3"}
    /\ ma.mem["p1"] = StateOf("u0") /\ ma.mem["p3"] = StateOf("u0")
    /\ ma.mem["p2"] = StateOf("m0")

====
